---- MODULE Spec2Model ----
(***************************************************************************)
(* The FCM simulation and comparison engine of python_sim/simulate.py.     *)
(*                                                                         *)
(* Numbers.  The engine computes on IEEE doubles.  Here a double x is the  *)
(* integer round(x * Scale), i.e. fixed point with four decimals: 1.0 is   *)
(* Scale, the threshold 0.0001 is 1.  A product of two such numbers is     *)
(* divided by Scale and rounded to nearest (RDiv).  exp and tanh are       *)
(* sampled every 0.5 on [-8, 8] and interpolated linearly in between, and  *)
(* saturate outside.  Values that are not numbers (None, a non-numeric     *)
(* string, NaN, the infinities) are codes at and above Special.            *)
(*                                                                         *)
(* Specifications.  Spec: one FCMSimulator and its runs, iteration by      *)
(* iteration.  SpecLive: the same with the fairness of a running loop.     *)
(* SpecCalls: the module-level run_simulation and                          *)
(* run_baseline_scenario_comparison, called on a caller's node list.       *)
(* SpecOrder: the comparison with its two runs scheduled freely.           *)
(* SpecConstruct: the constructor on raw node dicts.  SpecFuzzy:           *)
(* fuzzy_categorize_direction on pairs of series.  SpecImpact: the impact  *)
(* analysis of a comparison on two run results.  SpecApply:                *)
(* apply_initial_values on a caller's node list.                           *)
(***************************************************************************)
EXTENDS Integers, Sequences, FiniteSets, TLC

VARIABLES
    self,           \* the FCMSimulator instance (its graph carries the node values)
    run,            \* the locals of FCMSimulator.run_simulation
    pc,             \* where the simulator is: "idle", "loop", "done"
    result,         \* what the last FCMSimulator.run_simulation returned
    runs,           \* completed calls of run_simulation on this instance
    heap,           \* the node lists, by the name of the object: the caller's
                    \* "nodes" and the copies the comparison makes
    args,           \* the caller's other arguments
    phase,          \* the module-level call in progress, or "idle"
    refs,           \* the comparison's locals baseline_nodes and scenario_nodes:
                    \* the objects they refer to
    cmp_clamped_values, \* the comparison's local clamped_values
    baseline_results,   \* the comparison's locals: the two runs' results
    scenario_results,
    ret,            \* what the last module-level call returned or raised
    first,          \* what the first call of each function returned or raised
    repeated,       \* the functions that have returned or raised more than once
    last_call       \* the function that returned last

simVars == <<self, run, pc, result, runs>>

callVars == <<heap, args, phase, refs, cmp_clamped_values, baseline_results,
              scenario_results, ret, first, repeated, last_call>>

vars == <<self, run, pc, result, runs, heap, args, phase, refs, cmp_clamped_values,
          baseline_results, scenario_results, ret, first, repeated, last_call>>

\* ------------------------------------------------------------------ bounds
MaxIter == 3
MaxRuns == 2
MaxLen == 3

\* ----------------------------------------------------------------- numbers
Scale == 100 * 100

Abs(x) == IF x < 0 THEN -x ELSE x

SetMax(S) == CHOOSE x \in S : \A y \in S : y <= x

\* a / b rounded to nearest (b > 0)
RDiv(a, b) == (2 * a + b) \div (2 * b)

KnotStep == Scale \div 2
KnotLo == -8 * Scale
KnotHi == 8 * Scale

SigmoidKnots ==
    <<3, 6, 9, 15, 25, 41, 67, 110, 180, 293, 474, 759, 1192, 1824, 2689, 3775,
      5000,
      6225, 7311, 8176, 8808, 9241, 9526, 9707, 9820, 9890, 9933, 9959, 9975,
      9985, 9991, 9994, 9997>>

TanhKnots ==
    <<-10000, -10000, -10000, -10000, -10000, -10000, -9999, -9998, -9993,
      -9982, -9951, -9866, -9640, -9051, -7616, -4621,
      0,
      4621, 7616, 9051, 9640, 9866, 9951, 9982, 9993, 9998, 9999, 10000, 10000,
      10000, 10000, 10000, 10000>>

Interpolate(knots, x) ==
    IF x <= KnotLo THEN knots[1]
    ELSE IF x >= KnotHi THEN knots[Len(knots)]
    ELSE LET i == ((x - KnotLo) \div KnotStep) + 1
             r == (x - KnotLo) % KnotStep
         IN  knots[i] + RDiv((knots[i + 1] - knots[i]) * r, KnotStep)

\* ------------------------------------------------------ activation functions
sigmoid(x) == Interpolate(SigmoidKnots, x)

tanh(x) == Interpolate(TanhKnots, x)

relu(x) == IF 0 >= x THEN 0 ELSE x

ActivationNames == {"sigmoid", "tanh", "relu"}

Activation(name, x) ==
    CASE name = "sigmoid" -> sigmoid(x)
      [] name = "tanh" -> tanh(x)
      [] name = "relu" -> relu(x)

\* a Python dict is a function on its keys; d.get(k, default)
Get(d, k, default) == IF k \in DOMAIN d THEN d[k] ELSE default

EmptyDict == <<>>

\* ------------------------------------------------------ values that are not numbers
\* A node's raw value is a number (an integer below Special) or one of the
\* codes None, NotNumeric (a string such as "abc"), NaN, Infinity,
\* NegInfinity; a node dict may also have no value at all.
Special == Scale * Scale

None == Special + 1

NotNumeric == Special + 2

NaN == Special + 3

Infinity == Special + 4

NegInfinity == Special + 5

\* float(x) raises TypeError for None and ValueError for a non-numeric string
FloatRaises(x) == x \in {None, NotNumeric}

FloatError(x) == IF x = None THEN "TypeError" ELSE "ValueError"

\* float(x) otherwise: the number, or nan, inf, -inf as they are
float(x) == IF x \in {NaN, Infinity, NegInfinity} THEN x ELSE x + 0

IsFinite(x) == Abs(x) < Special

\* ------------------------------------------------------------ FCMSimulator
\* lines 25-30: a node without a value gets 0.0
normalize_node(node) ==
    [id |-> node.id, value |-> float(Get(node, "value", 0)), type |-> node.type]

\* lines 102 and 27: the first node whose value float() refuses
FirstFloatFailure(nodes) ==
    LET i == CHOOSE i \in 1..Len(nodes) :
                 /\ FloatRaises(Get(nodes[i], "value", 0))
                 /\ \A j \in 1..(i - 1) : ~FloatRaises(Get(nodes[j], "value", 0))
    IN  [ok |-> FALSE,
         exception |-> FloatError(Get(nodes[i], "value", 0)),
         error |-> IF Get(nodes[i], "value", 0) = None
                   THEN "float() argument must be a string or a real number, not 'NoneType'"
                   ELSE "could not convert string to float: 'abc'",
         node |-> ""]

\* lines 99-100
NoNodesProvided ==
    [ok |-> FALSE, exception |-> "ValueError",
     error |-> "No nodes provided for simulation", node |-> ""]

\* lines 124-125
UnknownActivation ==
    [ok |-> FALSE, exception |-> "ValueError",
     error |-> "Unknown activation function", node |-> ""]

normalize_edge(edge) ==
    [source |-> edge.source, target |-> edge.target, weight |-> edge.weight]

RECURSIVE AddNodes(_, _)
\* graph.add_node per node: a new id joins the node order, a repeated id
\* only overwrites the attributes
AddNodes(g, ns) ==
    IF ns = <<>> THEN g
    ELSE LET n == Head(ns)
         IN  AddNodes([order |-> IF n.id \in DOMAIN g.value
                                 THEN g.order ELSE Append(g.order, n.id),
                       value |-> (n.id :> n.value) @@ g.value,
                       weight |-> g.weight],
                      Tail(ns))

RECURSIVE AddEdgesUnchecked(_, _)
\* graph.add_edge for every edge: an end that is no node yet becomes one
\* (with value 0)
AddEdgesUnchecked(g, es) ==
    IF es = <<>> THEN g
    ELSE LET e == Head(es)
             g1 == IF e.source \in DOMAIN g.value THEN g
                   ELSE [g EXCEPT !.order = Append(g.order, e.source),
                                  !.value = (e.source :> 0) @@ g.value]
             g2 == IF e.target \in DOMAIN g1.value THEN g1
                   ELSE [g1 EXCEPT !.order = Append(g1.order, e.target),
                                   !.value = (e.target :> 0) @@ g1.value]
         IN  AddEdgesUnchecked([g2 EXCEPT !.weight =
                                   (<<e.source, e.target>> :> e.weight) @@ g2.weight],
                               Tail(es))

RECURSIVE AddEdges(_, _)
\* graph.add_edge per edge whose two ends are nodes of the graph; the others
\* are skipped with a warning
AddEdges(g, es) ==
    IF es = <<>> THEN g
    ELSE LET e == Head(es)
         IN  AddEdges(IF e.source \in DOMAIN g.value /\ e.target \in DOMAIN g.value
                      THEN [g EXCEPT !.weight =
                                (<<e.source, e.target>> :> e.weight) @@ g.weight]
                      ELSE g,
                      Tail(es))

EmptyGraph == [order |-> <<>>, value |-> EmptyDict, weight |-> EmptyDict]

\* An activation function name is taken as it comes.
ValidateNodesOnly(nodes, activation_function) ==
    IF nodes = <<>> THEN NoNodesProvided
    ELSE IF \E i \in 1..Len(nodes) : FloatRaises(Get(nodes[i], "value", 0))
    THEN FirstFloatFailure(nodes)
    ELSE [ok |-> TRUE]

\* lines 99-125: what __init__ raises before it builds the graph, in the
\* order it checks
Validate(nodes, activation_function) ==
    IF nodes = <<>> THEN NoNodesProvided
    ELSE IF \E i \in 1..Len(nodes) : FloatRaises(Get(nodes[i], "value", 0))
    THEN FirstFloatFailure(nodes)
    ELSE IF activation_function \notin ActivationNames
    THEN UnknownActivation
    ELSE [ok |-> TRUE]

\* One simulator kept between calls: a later call gets the earlier call's
\* graph, with the values its run left there.
NewSimulatorCached(nodes, edges, activation_function, threshold, max_iterations) ==
    IF nodes = <<>> THEN NoNodesProvided
    ELSE IF \E i \in 1..Len(nodes) : FloatRaises(Get(nodes[i], "value", 0))
    THEN FirstFloatFailure(nodes)
    ELSE IF activation_function \notin ActivationNames
    THEN UnknownActivation
    ELSE IF "graph" \in DOMAIN self
    THEN self
    ELSE LET ns == [i \in 1..Len(nodes) |-> normalize_node(nodes[i])]
             es == [i \in 1..Len(edges) |-> normalize_edge(edges[i])]
             graph == AddEdges(AddNodes(EmptyGraph, ns), es)
         IN  [ok |-> TRUE,
              nodes |-> ns,
              edges |-> es,
              threshold |-> threshold,
              max_iterations |-> max_iterations,
              activation |-> activation_function,
              graph |-> graph,
              initial_state |-> graph.value,
              node_order |-> graph.order]

\* FCMSimulator.__init__: the instance, or the exception it raises.  The
\* checks of lines 107-116 follow normalize_node, after which every value is a
\* float, so none of them can fail.
NewSimulator(nodes, edges, activation_function, threshold, max_iterations) ==
    IF ~Validate(nodes, activation_function).ok
    THEN Validate(nodes, activation_function)
    ELSE LET ns == [i \in 1..Len(nodes) |-> normalize_node(nodes[i])]
             es == [i \in 1..Len(edges) |-> normalize_edge(edges[i])]
             graph == AddEdges(AddNodes(EmptyGraph, ns), es)
         IN  [ok |-> TRUE,
              nodes |-> ns,
              edges |-> es,
              threshold |-> threshold,
              max_iterations |-> max_iterations,
              activation |-> activation_function,
              graph |-> graph,
              initial_state |-> graph.value,
              node_order |-> graph.order]

\* nx.adjacency_matrix(graph): the weight of the edge j -> i, 0 without one
AdjacencyMatrix(graph) ==
    [j \in DOMAIN graph.value, i \in DOMAIN graph.value |->
        Get(graph.weight, <<j, i>>, 0)]

\* the row of `node` (its outgoing weights) taken for its column
RECURSIVE DotOutgoingFrom(_, _, _, _, _)
DotOutgoingFrom(order, k, values, matrix, node) ==
    IF k > Len(order) THEN 0
    ELSE values[order[k]] * matrix[node, order[k]]
         + DotOutgoingFrom(order, k + 1, values, matrix, node)

DotOutgoing(order, values, matrix, node) ==
    RDiv(DotOutgoingFrom(order, 1, values, matrix, node), Scale)

RECURSIVE DotFrom(_, _, _, _, _)
DotFrom(order, k, values, matrix, node) ==
    IF k > Len(order) THEN 0
    ELSE values[order[k]] * matrix[order[k], node]
         + DotFrom(order, k + 1, values, matrix, node)

\* np.dot(current_values, incoming_weights) for the column of `node`
Dot(order, values, matrix, node) ==
    RDiv(DotFrom(order, 1, values, matrix, node), Scale)

\* The sequential update: a node's sum sees the values already written in
\* this iteration for the nodes before it in the node order.
RECURSIVE NewStateSequentialFrom(_, _, _, _)
NewStateSequentialFrom(sim, r, k, values) ==
    IF k > Len(sim.node_order) THEN values
    ELSE LET node == sim.node_order[k]
             v == IF node \in r.clamped_nodes
                  THEN Get(r.clamped_values, node, sim.graph.value[node])
                  ELSE Activation(sim.activation,
                                  Dot(sim.node_order, values, r.adjacency_matrix, node))
         IN  NewStateSequentialFrom(sim, r, k + 1, [values EXCEPT ![node] = v])

NewStateSequential(sim, r) == NewStateSequentialFrom(sim, r, 1, sim.graph.value)

\* A clamp without a clamp value falls through to the transition rule.
NewStateClampNeedsValue(sim, r) ==
    [node \in DOMAIN sim.graph.value |->
        IF node \in r.clamped_nodes /\ node \in DOMAIN r.clamped_values
        THEN r.clamped_values[node]
        ELSE Activation(sim.activation,
                        Dot(sim.node_order, sim.graph.value, r.adjacency_matrix, node))]

\* The weighted sums see the clamp values already in the first iteration.
NewStateClampSeen(sim, r) ==
    LET seen == [n \in DOMAIN sim.graph.value |->
                    IF n \in r.clamped_nodes
                    THEN Get(r.clamped_values, n, sim.graph.value[n])
                    ELSE sim.graph.value[n]]
    IN  [node \in DOMAIN sim.graph.value |->
            IF node \in r.clamped_nodes
            THEN seen[node]
            ELSE Activation(sim.activation,
                            Dot(sim.node_order, seen, r.adjacency_matrix, node))]

\* lines 194-205: new_state, every entry from the graph's values, which the
\* loop over the nodes does not write
NewState(sim, r) ==
    [node \in DOMAIN sim.graph.value |->
        IF node \in r.clamped_nodes
        THEN Get(r.clamped_values, node, sim.graph.value[node])
        ELSE Activation(sim.activation,
                        Dot(sim.node_order, sim.graph.value, r.adjacency_matrix, node))]

\* lines 206-207
MaxChange(sim, new_state) ==
    SetMax({Abs(new_state[node] - sim.graph.value[node]) : node \in DOMAIN sim.graph.value})

\* lines 179-190: the locals before the loop
RunStart(sim, clamped_nodes, clamped_values) ==
    [time_series |-> [node \in DOMAIN sim.graph.value |-> <<sim.graph.value[node]>>],
     current_state |-> sim.graph.value,
     adjacency_matrix |-> AdjacencyMatrix(sim.graph),
     converged |-> FALSE,
     iterations |-> 0,
     clamped_nodes |-> clamped_nodes,
     clamped_values |-> clamped_values]

\* The loop runs on after convergence, to the iteration budget.
LoopGuardIgnoresConverged(sim, r) == r.iterations < sim.max_iterations

\* The loop runs one iteration over the budget.
LoopGuardOffByOne(sim, r) == ~r.converged /\ r.iterations <= sim.max_iterations

\* line 191: the while condition
LoopGuard(sim, r) == ~r.converged /\ r.iterations < sim.max_iterations

\* lines 209-210
Converged(max_change, threshold) == max_change < threshold

\* lines 212-214: the values written back to the graph
WriteBack(sim, new_state) == [sim EXCEPT !.graph.value = new_state]

\* Only the nodes whose value moved get an entry.
AppendChanged(time_series, new_state) ==
    [node \in DOMAIN time_series |->
        IF new_state[node] = time_series[node][Len(time_series[node])]
        THEN time_series[node]
        ELSE Append(time_series[node], new_state[node])]

\* lines 212-214: every node's new value appended to its series
AppendAll(time_series, new_state) ==
    [node \in DOMAIN time_series |-> Append(time_series[node], new_state[node])]

\* The pass leaves the counter, the series and the graph as they were.
LoopBodyNoProgress(sim, r) == [sim |-> sim, run |-> r]

\* lines 192-214: one pass of the loop body
LoopBody(sim, r) ==
    LET new_state == NewState(sim, r)
        max_change == MaxChange(sim, new_state)
    IN  [sim |-> WriteBack(sim, new_state),
         run |-> [r EXCEPT !.iterations = r.iterations + 1,
                           !.converged = Converged(max_change, sim.threshold),
                           !.time_series = AppendAll(r.time_series, new_state)]]

\* A run that used its whole iteration budget is reported as not converged.
RunResultBudgetWins(sim, r) ==
    [finalState |-> sim.graph.value,
     timeSeries |-> r.time_series,
     iterations |-> r.iterations,
     converged |-> r.converged /\ r.iterations < sim.max_iterations,
     initialValues |-> r.current_state,
     clampedNodes |-> r.clamped_nodes]

\* lines 217-233: the dict returned
RunResult(sim, r) ==
    [finalState |-> sim.graph.value,
     timeSeries |-> r.time_series,
     iterations |-> r.iterations,
     converged |-> r.converged,
     initialValues |-> r.current_state,
     clampedNodes |-> r.clamped_nodes]

\* ------------------------------------------------- module-level functions
Raise(kind, message) == [ok |-> FALSE, error |-> kind, message |-> message]

\* lines 304-311: what run_simulation returns (clamped_nodes None is the
\* empty set)
RunSimulationReturn(results, clamped_nodes) ==
    [ok |-> TRUE,
     finalState |-> results.finalState,
     timeSeries |-> results.timeSeries,
     iterations |-> results.iterations,
     converged |-> results.converged,
     initialValues |-> results.initialValues,
     clampedNodes |-> clamped_nodes]

\* lines 313-317: any exception leaves run_simulation as a ValueError
SimulationFailed(error) == Raise("ValueError", <<"Simulation failed", error>>)

\* The error is returned in a dict instead of being raised.
ComparisonErrorReturned(failure) ==
    [ok |-> TRUE, error |-> "ValueError",
     message |-> <<"Baseline-scenario comparison failed", failure.message>>]

\* lines 672-676: and the comparison likewise
ComparisonFailed(failure) ==
    Raise("ValueError", <<"Baseline-scenario comparison failed", failure.message>>)

\* The copy is the list it was made from: no copy at all.
SameObject(source, target) == source

\* copy.deepcopy(nodes): the copy is a new object, named by the local
\* variable that holds it
deepcopy(source, target) == target

\* A node without an override keeps its value only when it is a driver.
ApplyOverridesByType(node_list, initial_values) ==
    [i \in 1..Len(node_list) |->
        IF node_list[i].id \in DOMAIN initial_values
        THEN [node_list[i] EXCEPT !.value = initial_values[node_list[i].id]]
        ELSE IF node_list[i].type = "driver" THEN node_list[i]
        ELSE [node_list[i] EXCEPT !.value = 0]]

\* lines 571-583: the overrides written into a node list (none when the
\* mapping is empty or None)
ApplyOverrides(node_list, initial_values) ==
    IF initial_values = EmptyDict THEN node_list
    ELSE [i \in 1..Len(node_list) |->
            IF node_list[i].id \in DOMAIN initial_values
            THEN [node_list[i] EXCEPT !.value = initial_values[node_list[i].id]]
            ELSE node_list[i]]

RECURSIVE ClampedValuesFrom(_, _)
\* lines 589-593: the scenario value of every clamped node
ClampedValuesFrom(node_list, clamped_nodes) ==
    IF node_list = <<>> THEN EmptyDict
    ELSE LET n == node_list[Len(node_list)]
             before == ClampedValuesFrom(SubSeq(node_list, 1, Len(node_list) - 1),
                                         clamped_nodes)
         IN  IF n.id \in clamped_nodes THEN (n.id :> n.value) @@ before ELSE before

Max2(a, b) == IF a >= b THEN a ELSE b

\* The baseline run is given the clamp set too.
BaselineClampsToo(clamped_nodes) == clamped_nodes

\* lines 596-602: the baseline run is called without clamped_nodes (None)
BaselineClamps(clamped_nodes) == {}

\* The comparison reports convergence when either run converged.
EitherConverged(b, s) == b.converged \/ s.converged

\* line 667
BothConverged(b, s) == b.converged /\ s.converged

\* line 668
MaxIterations(b, s) == Max2(b.iterations, s.iterations)

\* ---------------------------------------------------------- impact analysis
Min2(a, b) == IF a <= b THEN a ELSE b

\* The two series are added.
SeriesSum(baseline_series, scenario_series) ==
    [i \in 1..Len(baseline_series) |-> scenario_series[i] + baseline_series[i]]

\* scenario - baseline, step by step (the series have one length here)
DiffSeries(baseline_series, scenario_series) ==
    [i \in 1..Len(baseline_series) |-> scenario_series[i] - baseline_series[i]]

\* np.max(np.abs(diff_series))
MaxAbs(diff_series) == SetMax({Abs(diff_series[i]) : i \in 1..Len(diff_series)})

RECURSIVE SumSeq(_)
SumSeq(s) == IF s = <<>> THEN 0 ELSE Head(s) + SumSeq(Tail(s))

\* np.trapz(diff_series) with unit spacing, doubled: the sum of
\* diff[i] + diff[i + 1], so that halves stay integers (0 for one point)
TwiceTrapz(diff_series) ==
    2 * SumSeq(diff_series) - diff_series[1] - diff_series[Len(diff_series)]

\* rel = max_abs / denominator compared with tenths / 10, as IEEE division
\* compares: x / 0 is +inf for x > 0 and NaN for x = 0, and NaN compares false
RelAtMost(max_abs, denominator, tenths) ==
    IF denominator > 0 THEN 10 * max_abs <= tenths * denominator
    ELSE IF denominator = 0 THEN FALSE
    ELSE TRUE

RelAbove(max_abs, denominator, tenths) ==
    IF denominator > 0 THEN 10 * max_abs > tenths * denominator
    ELSE IF denominator = 0 THEN max_abs > 0
    ELSE FALSE

\* lines 409-414
Magnitude(max_abs, denominator) ==
    IF RelAbove(max_abs, denominator, 7) THEN "High"
    ELSE IF RelAbove(max_abs, denominator, 3) THEN "Medium"
    ELSE "Low"

\* lines 417-420: the sign changes between neighbours among the non-zero
\* entries of the diff series
Crosses(diff_series) ==
    Cardinality({ i \in 1..Len(diff_series) :
        /\ diff_series[i] # 0
        /\ \E j \in (i + 1)..Len(diff_series) :
              /\ diff_series[j] # 0
              /\ (diff_series[j] > 0) # (diff_series[i] > 0)
              /\ \A k \in (i + 1)..(j - 1) : diff_series[k] = 0 })

\* The sustained-change rule is tried before the temporary-change rule.
FuzzyRulesSustainedFirst(diff_series, final_delta, max_abs, denominator, epsilon, mag, auc2) ==
    IF Crosses(diff_series) > 1 THEN <<"Oscillating", mag>>
    ELSE IF final_delta > epsilon THEN <<mag, "Increase">>
    ELSE IF final_delta < -epsilon THEN <<mag, "Decrease">>
    ELSE IF RelAbove(max_abs, denominator, 1)
            /\ 20 * Abs(final_delta) < Max2(20 * epsilon, max_abs)
    THEN <<"Temporary", mag, IF auc2 > 0 THEN "Increase" ELSE "Decrease">>
    ELSE IF auc2 > 0 THEN <<mag, "Increase">>
    ELSE IF auc2 < 0 THEN <<mag, "Decrease">>
    ELSE <<"No Change">>

\* Without the AUC fallback: a final delta within epsilon is "No Change".
FuzzyRulesNoFallback(diff_series, final_delta, max_abs, denominator, epsilon, mag, auc2) ==
    IF Crosses(diff_series) > 1 THEN <<"Oscillating", mag>>
    ELSE IF RelAbove(max_abs, denominator, 1)
            /\ 20 * Abs(final_delta) < Max2(20 * epsilon, max_abs)
    THEN <<"Temporary", mag, IF auc2 > 0 THEN "Increase" ELSE "Decrease">>
    ELSE IF final_delta > epsilon THEN <<mag, "Increase">>
    ELSE IF final_delta < -epsilon THEN <<mag, "Decrease">>
    ELSE <<"No Change">>

\* lines 416-441: the rules after the "No Change" test, in the code's order;
\* a label is the sequence of the words of the returned string
FuzzyRules(diff_series, final_delta, max_abs, denominator, epsilon, mag, auc2) ==
    IF Crosses(diff_series) > 1 THEN <<"Oscillating", mag>>
    ELSE IF RelAbove(max_abs, denominator, 1)
            /\ 20 * Abs(final_delta) < Max2(20 * epsilon, max_abs)
    THEN <<"Temporary", mag, IF auc2 > 0 THEN "Increase" ELSE "Decrease">>
    ELSE IF final_delta > epsilon THEN <<mag, "Increase">>
    ELSE IF final_delta < -epsilon THEN <<mag, "Decrease">>
    ELSE IF auc2 > 0 THEN <<mag, "Increase">>
    ELSE IF auc2 < 0 THEN <<mag, "Decrease">>
    ELSE <<"No Change">>

\* lines 394-441: the label, or the ValueError raised
fuzzy_categorize_direction(baseline_series, scenario_series, global_max_change, epsilon) ==
    IF baseline_series = <<>> \/ scenario_series = <<>>
    THEN [ok |-> FALSE, error |-> "ValueError", message |-> "Input series must not be empty."]
    ELSE IF Len(baseline_series) # Len(scenario_series)
    THEN [ok |-> FALSE, error |-> "ValueError",
          message |-> "Baseline and scenario series must be of equal length."]
    ELSE LET diff_series == DiffSeries(baseline_series, scenario_series)
             final_delta == diff_series[Len(diff_series)]
             max_abs == MaxAbs(diff_series)
             denominator == global_max_change + epsilon
         IN  IF RelAtMost(max_abs, denominator, 1)
             THEN [ok |-> TRUE, label |-> <<"No Change">>]
             ELSE [ok |-> TRUE,
                   label |-> FuzzyRules(diff_series, final_delta, max_abs, denominator,
                                        epsilon, Magnitude(max_abs, denominator),
                                        TwiceTrapz(diff_series))]

\* line 378: the default epsilon, 1e-4
DefaultEpsilon == 1

\* max(diff_series): the largest entry, not the one of the largest magnitude.
MaxSigned(diff_series) ==
    SetMax({diff_series[i] : i \in 1..Len(diff_series)})

\* max(diff_series, key=abs): the first entry of the largest magnitude
MaxByAbs(diff_series) ==
    diff_series[CHOOSE i \in 1..Len(diff_series) :
        /\ Abs(diff_series[i]) = MaxAbs(diff_series)
        /\ \A j \in 1..(i - 1) : Abs(diff_series[j]) < MaxAbs(diff_series)]

\* The series are cut to their last min_len entries, not their first.
TruncatedTail(series, min_len) == SubSeq(series, Len(series) - min_len + 1, Len(series))

\* lines 492-499: both series cut to the shorter one's length
Truncated(series, min_len) == SubSeq(series, 1, min_len)

\* lines 486-489, in hundredths of a percent; the epsilon 1e-8 is the
\* denominator only when both values are 0, and the quotient is 0 then
NormalizedChange(baseline_value, scenario_value) ==
    LET denom == Max2(Abs(scenario_value), Abs(baseline_value))
    IN  IF denom = 0 THEN 0
        ELSE RDiv((scenario_value - baseline_value) * 100 * 100, denom)

\* lines 477-516: the metrics of one node; auc is kept doubled (in halves of
\* 1 / Scale)
CalculateImpactMetrics(node_id, b, sc, global_max_change) ==
    LET baseline_value == b.finalState[node_id]
        scenario_value == sc.finalState[node_id]
        min_len == Min2(Len(b.timeSeries[node_id]), Len(sc.timeSeries[node_id]))
        baseline_series == Truncated(b.timeSeries[node_id], min_len)
        scenario_series == Truncated(sc.timeSeries[node_id], min_len)
        diff_series == DiffSeries(baseline_series, scenario_series)
    IN  [id |-> node_id,
         baseline |-> baseline_value,
         scenario |-> scenario_value,
         delta |-> scenario_value - baseline_value,
         normalizedChangePercent |-> NormalizedChange(baseline_value, scenario_value),
         auc |-> TwiceTrapz(diff_series),
         maxDifference |-> MaxByAbs(diff_series),
         direction |-> fuzzy_categorize_direction(baseline_series, scenario_series,
                                                  global_max_change, DefaultEpsilon).label]

\* The clamped nodes' differences count as well.
GlobalMaxChangeAllNodes(b, sc, clamped_nodes) ==
    SetMax({ MaxAbs(DiffSeries(
                 Truncated(b.timeSeries[n],
                           Min2(Len(b.timeSeries[n]), Len(sc.timeSeries[n]))),
                 Truncated(sc.timeSeries[n],
                           Min2(Len(b.timeSeries[n]), Len(sc.timeSeries[n]))))) :
             n \in DOMAIN b.finalState })

\* lines 624-637: the largest |diff| of any node outside the clamp set, 1.0
\* when there is no such node
GlobalMaxChange(b, sc, clamped_nodes) ==
    LET all_diff_series ==
            { MaxAbs(DiffSeries(
                  Truncated(b.timeSeries[n],
                            Min2(Len(b.timeSeries[n]), Len(sc.timeSeries[n]))),
                  Truncated(sc.timeSeries[n],
                            Min2(Len(b.timeSeries[n]), Len(sc.timeSeries[n]))))) :
              n \in DOMAIN b.finalState \ clamped_nodes }
    IN  IF all_diff_series = {} THEN Scale ELSE SetMax(all_diff_series)

\* The difference is taken the other way round.
DeltaReversed(b, sc) ==
    [n \in DOMAIN b.finalState |-> b.finalState[n] - sc.finalState[n]]

\* lines 653-658
DeltaFinalState(b, sc) ==
    [n \in DOMAIN b.finalState |-> sc.finalState[n] - b.finalState[n]]

\* lines 639-651
ImpactMetrics(b, sc, clamped_nodes) ==
    [n \in DOMAIN b.finalState |->
        CalculateImpactMetrics(n, b, sc, GlobalMaxChange(b, sc, clamped_nodes))]

\* lines 660-670: the comparison's result
ComparisonReturn(b, sc, clamped_nodes) ==
    [ok |-> TRUE,
     baselineFinalState |-> b.finalState,
     comparisonFinalState |-> sc.finalState,
     baselineTimeSeries |-> b.timeSeries,
     comparisonTimeSeries |-> sc.timeSeries,
     deltaFinalState |-> DeltaFinalState(b, sc),
     impactMetrics |-> ImpactMetrics(b, sc, clamped_nodes),
     converged |-> BothConverged(b, sc),
     iterations |-> MaxIterations(b, sc),
     clampedNodes |-> clamped_nodes]

\* ------------------------------------------------------------------ inputs
Node(id, value, type) == [id |-> id, value |-> value, type |-> type]

Edge(source, target, weight) == [source |-> source, target |-> target, weight |-> weight]

Half == Scale \div 2

NodeLists ==
    { <<Node("A", a, "driver"), Node("B", b, "regular")>> : a \in {0, Scale}, b \in {0, Half} }

EdgeLists ==
    { <<Edge("A", "B", Scale), Edge("B", "A", 0)>>,
      <<Edge("A", "B", Half)>>,
      <<Edge("A", "B", Scale), Edge("B", "A", -Scale)>>,
      <<Edge("A", "B", Scale), Edge("B", "A", Scale)>>,
      <<Edge("A", "A", Scale), Edge("A", "B", -Half)>>,
      <<Edge("A", "B", Half), Edge("Z", "B", Scale)>> }

Thresholds == {1, Half}

ClampChoices ==
    { [nodes |-> {}, values |-> EmptyDict],
      [nodes |-> {"A"}, values |-> EmptyDict],
      [nodes |-> {"A"}, values |-> ("A" :> 7000)],
      [nodes |-> {"B"}, values |-> ("A" :> 7000)],
      [nodes |-> {"A", "B"}, values |-> ("B" :> 2000)] }

\* the end-to-end scenario of the specification
EndToEnd ==
    NewSimulator(<<Node("A", Scale, "driver"), Node("B", 0, "regular")>>,
                 <<Edge("A", "B", Half)>>, "tanh", 1, 50)

Simulators ==
    { NewSimulator(ns, es, a, t, m) :
        ns \in NodeLists, es \in EdgeLists, a \in ActivationNames,
        t \in Thresholds, m \in 0..MaxIter } \cup {EndToEnd}

NoRun == [none |-> TRUE]

NoResult == [none |-> TRUE]

NoCalls ==
    /\ heap = EmptyDict
    /\ args = NoResult
    /\ phase = "idle"
    /\ refs = NoResult
    /\ cmp_clamped_values = EmptyDict
    /\ baseline_results = NoResult
    /\ scenario_results = NoResult
    /\ ret = NoResult
    /\ first = EmptyDict
    /\ repeated = {}
    /\ last_call = "none"

\* ------------------------------------------------- the simulator, stepwise
Init ==
    /\ self \in Simulators
    /\ run = NoRun
    /\ pc = "idle"
    /\ result = NoResult
    /\ runs = 0
    /\ NoCalls

\* FCMSimulator.run_simulation is called: lines 176-190
StartRun ==
    /\ pc \in {"idle", "done"}
    /\ runs < MaxRuns
    /\ \E c \in ClampChoices : run' = RunStart(self, c.nodes, c.values)
    /\ pc' = "loop"
    /\ UNCHANGED <<self, result, runs>>
    /\ UNCHANGED callVars

\* one iteration of the while loop: lines 191-214
Iterate ==
    /\ pc = "loop"
    /\ LoopGuard(self, run)
    /\ LET next == LoopBody(self, run)
       IN  /\ self' = next.sim
           /\ run' = next.run
    /\ UNCHANGED <<pc, result, runs>>
    /\ UNCHANGED callVars

\* the loop is left and the result returned: lines 215-233
Finish ==
    /\ pc = "loop"
    /\ ~LoopGuard(self, run)
    /\ result' = RunResult(self, run)
    /\ pc' = "done"
    /\ runs' = runs + 1
    /\ UNCHANGED <<self, run>>
    /\ UNCHANGED callVars

Next == StartRun \/ Iterate \/ Finish

Spec == Init /\ [][Next]_vars

\* ------------------------------------------------- the claims on one run
NodeIds == DOMAIN self.graph.value

InRun == pc \in {"loop", "done"}

\* the state after iteration k (k = 0: the state the run started from), as
\* the run recorded it in its time series
StateAt(k) == [n \in NodeIds |-> run.time_series[n][k + 1]]

\* the weighted sum of node i's predecessors over the state s
WeightedSum(s, i) ==
    LET w(j) == Get(self.graph.weight, <<j, i>>, 0)
        RECURSIVE Sum(_)
        Sum(S) == IF S = {} THEN 0
                  ELSE LET j == CHOOSE x \in S : TRUE
                       IN  s[j] * w(j) + Sum(S \ {j})
    IN  RDiv(Sum(NodeIds), Scale)

\* the largest change of any node, clamped or not, in iteration k
ChangeAt(k) == SetMax({Abs(StateAt(k)[n] - StateAt(k - 1)[n]) : n \in NodeIds})

\* a first run (the graph still held the declared values when it started)
\* of the two-node example A -> B weight 1, B -> A weight 0, sigmoid, A = 1, B = 0
FirstRun == (pc = "loop" /\ runs = 0) \/ (pc = "done" /\ runs = 1)

IsSyncExample ==
    /\ FirstRun
    /\ self.nodes = <<Node("A", Scale, "driver"), Node("B", 0, "regular")>>
    /\ self.edges = <<Edge("A", "B", Scale), Edge("B", "A", 0)>>
    /\ self.activation = "sigmoid"
    /\ run.clamped_nodes = {}

\* C1: in every iteration k >= 1 every non-clamped node's new value is the
\* activation of the weighted sum over the complete state after iteration
\* k - 1, never over a value written in iteration k; in the example,
\* iteration 1 yields B = sigmoid(1) = 0.7311 and A = sigmoid(0) = 0.5.
C1_SynchronousUpdate ==
    /\ InRun =>
         \A k \in 1..run.iterations : \A i \in NodeIds \ run.clamped_nodes :
            StateAt(k)[i] = Activation(self.activation, WeightedSum(StateAt(k - 1), i))
    /\ (IsSyncExample /\ run.iterations >= 1) =>
         /\ StateAt(1)["B"] = 7311
         /\ StateAt(1)["A"] = 5000

C1_Witness ==
    /\ IsSyncExample
    /\ run.iterations >= 2
    /\ StateAt(1) = ("A" :> 5000 @@ "B" :> 7311)

\* C2: the run stops at the first iteration whose largest change (clamped
\* nodes included) is below the threshold: no earlier iteration was below it
\* and none runs after it, converged is true exactly then, the iteration is
\* counted, its state is appended to every series and is the final state.
C2_StopsAtFirstConvergence ==
    InRun =>
      /\ \A k \in 1..(run.iterations - 1) : ChangeAt(k) >= self.threshold
      /\ run.converged <=>
            (run.iterations >= 1 /\ ChangeAt(run.iterations) < self.threshold)
      /\ run.converged => ~ENABLED Iterate
      /\ pc = "done" =>
            /\ result.converged = run.converged
            /\ result.iterations = run.iterations
            /\ result.timeSeries = run.time_series
            /\ \A n \in NodeIds :
                  /\ Len(result.timeSeries[n]) = result.iterations + 1
                  /\ result.finalState[n] = StateAt(run.iterations)[n]
                  /\ self.graph.value[n] = StateAt(run.iterations)[n]

\* a run that converged in its second iteration, which still changed a node
C2_Witness ==
    /\ pc = "done"
    /\ result.converged
    /\ result.iterations = 2
    /\ ChangeAt(2) > 0
    /\ result.finalState # StateAt(1)

\* C3: iterations never exceeds max_iterations, and a run none of whose
\* iterations changed less than the threshold returns a result with
\* iterations = max_iterations and converged = false.
C3_IterationBudget ==
    /\ InRun => run.iterations <= self.max_iterations
    /\ pc = "done" =>
         /\ result.iterations <= self.max_iterations
         /\ (\A k \in 1..run.iterations : ChangeAt(k) >= self.threshold) =>
               /\ result.iterations = self.max_iterations
               /\ result.converged = FALSE
               /\ DOMAIN result.finalState = NodeIds

C3_Witness ==
    /\ pc = "done"
    /\ ~result.converged
    /\ self.max_iterations >= 2
    /\ result.iterations = self.max_iterations
    /\ \A k \in 1..run.iterations : ChangeAt(k) >= self.threshold

\* C4: a clamped node holds its clamp value at every step t >= 1, or, with
\* no clamp value supplied, the value it had when the run started; the
\* transition rule never produces its value.
C4_ClampInvariance ==
    InRun =>
      \A x \in run.clamped_nodes \cap NodeIds : \A t \in 1..run.iterations :
         StateAt(t)[x] = Get(run.clamped_values, x, StateAt(0)[x])

\* both kinds of clamp at work for two iterations, on nodes the transition
\* rule would have moved
C4_Witness ==
    /\ InRun
    /\ run.iterations >= 2
    /\ run.clamped_nodes = {"A", "B"}
    /\ "A" \notin DOMAIN run.clamped_values
    /\ "B" \in DOMAIN run.clamped_values
    /\ \A x \in {"A", "B"} :
          StateAt(2)[x] # Activation(self.activation, WeightedSum(StateAt(1), x))

\* C5: after every iteration all series have the same length, iterations + 1,
\* and so they have in the returned result, however the run stopped.
C5_SeriesLength ==
    /\ InRun =>
         /\ DOMAIN run.time_series = NodeIds
         /\ \A n \in NodeIds : Len(run.time_series[n]) = run.iterations + 1
    /\ pc = "done" =>
         /\ DOMAIN result.timeSeries = NodeIds
         /\ \A n \in NodeIds : Len(result.timeSeries[n]) = result.iterations + 1

\* a converged result some of whose nodes did not move in an iteration
C5_Witness ==
    /\ pc = "done"
    /\ result.converged
    /\ result.iterations >= 2
    /\ \E n \in NodeIds : result.timeSeries[n][2] = result.timeSeries[n][3]
    /\ \A n \in NodeIds : Len(result.timeSeries[n]) = 1 + result.iterations

\* C6: every run of a simulator, a second or later one included, starts from
\* the declared initial values: timeSeries[n][0] and initialValues[n] are
\* initial_state[n].
C6_StartsFromDeclaredValues ==
    /\ InRun =>
         \A n \in NodeIds :
            /\ StateAt(0)[n] = self.initial_state[n]
            /\ run.current_state[n] = self.initial_state[n]
    /\ pc = "done" =>
         \A n \in NodeIds :
            /\ result.timeSeries[n][1] = self.initial_state[n]
            /\ result.initialValues[n] = self.initial_state[n]

\* a first run of the end-to-end scenario: A = 1.0 (driver), B = 0.0, one edge
\* A -> B of weight 0.5, tanh, threshold 0.0001, 50 iterations, no clamps
IsEndToEnd ==
    /\ FirstRun
    /\ self.nodes = <<Node("A", Scale, "driver"), Node("B", 0, "regular")>>
    /\ self.edges = <<Edge("A", "B", Half)>>
    /\ self.activation = "tanh"
    /\ self.threshold = 1
    /\ self.max_iterations = 50
    /\ StateAt(0) = ("A" :> Scale @@ "B" :> 0)
    /\ run.clamped_nodes = {}

\* C7 as stated: the run converges before 50 iterations, A is 1.0 at every
\* step and B's final value is tanh(0.5) = 0.4621.
C7_EndToEndAsStated ==
    (IsEndToEnd /\ pc = "done") =>
      /\ result.converged
      /\ result.iterations < 50
      /\ \A t \in 1..Len(result.timeSeries["A"]) : result.timeSeries["A"][t] = Scale
      /\ result.finalState["B"] = 4621

\* C7 as the code has it: the run converges in iteration 3; A, which has no
\* incoming edge and is not clamped, is 1.0 at step 0 only and tanh(0) = 0
\* from step 1 on; B is tanh(0.5) = 0.4621 after iteration 1 and tanh(0) = 0
\* from iteration 2 on, which is its final value.
C7_EndToEnd ==
    (IsEndToEnd /\ pc = "done") =>
      /\ result.converged
      /\ result.iterations = 3
      /\ result.timeSeries["A"] = <<Scale, 0, 0, 0>>
      /\ result.timeSeries["B"] = <<0, 4621, 0, 0>>
      /\ result.finalState = ("A" :> 0 @@ "B" :> 0)

C7_Witness ==
    /\ IsEndToEnd
    /\ pc = "done"
    /\ result.iterations = 3
    /\ result.timeSeries["B"][2] = 4621

\* the ids of the simulator's node list
DeclaredIds == { self.nodes[i].id : i \in 1..Len(self.nodes) }

\* the weight the edge list gives j -> i when both are declared nodes (the
\* last such edge counts), 0 without one
KnownWeight(j, i) ==
    LET known == { e \in 1..Len(self.edges) :
                     /\ self.edges[e].source = j
                     /\ self.edges[e].target = i
                     /\ j \in DeclaredIds
                     /\ i \in DeclaredIds }
    IN  IF known = {} THEN 0 ELSE self.edges[SetMax(known)].weight

KnownWeightedSum(s, i) ==
    LET RECURSIVE Sum(_)
        Sum(S) == IF S = {} THEN 0
                  ELSE LET j == CHOOSE x \in S : TRUE
                       IN  s[j] * KnownWeight(j, i) + Sum(S \ {j})
    IN  RDiv(Sum(DeclaredIds), Scale)

HasUnknownEdge ==
    \E e \in 1..Len(self.edges) :
       self.edges[e].source \notin DeclaredIds \/ self.edges[e].target \notin DeclaredIds

\* C14: construction succeeds whatever ends the edges name; the graph's
\* nodes, the state vector's and the result's keys are the declared node ids;
\* the graph has the edges between declared nodes and no other; and every
\* iteration computes what the edge list without the other edges gives.
C14_UnknownEdgesDropped ==
    /\ self.ok
    /\ DOMAIN self.graph.value = DeclaredIds
    /\ { self.node_order[i] : i \in 1..Len(self.node_order) } = DeclaredIds
    /\ DOMAIN self.initial_state = DeclaredIds
    /\ DOMAIN self.graph.weight \subseteq DeclaredIds \X DeclaredIds
    /\ \A j \in DeclaredIds, i \in DeclaredIds :
          Get(self.graph.weight, <<j, i>>, 0) = KnownWeight(j, i)
    /\ InRun =>
         /\ DOMAIN run.time_series = DeclaredIds
         /\ \A k \in 1..run.iterations : \A i \in DeclaredIds \ run.clamped_nodes :
               StateAt(k)[i] = Activation(self.activation, KnownWeightedSum(StateAt(k - 1), i))
    /\ pc = "done" =>
         /\ DOMAIN result.finalState = DeclaredIds
         /\ DOMAIN result.timeSeries = DeclaredIds

\* a run of a simulator whose edge list names the unknown node Z has moved
\* the node the dropped edge pointed at
C14_Witness ==
    /\ pc = "done"
    /\ HasUnknownEdge
    /\ "B" \notin run.clamped_nodes
    /\ result.iterations >= 2
    /\ result.timeSeries["B"][2] # result.timeSeries["B"][1]

\* C22: a run whose clamp values hold an entry for a node outside its clamp
\* set is rejected before any iteration: no run is ever under way, or
\* finished, with such an entry.
C22_StrayClampValueRejected ==
    InRun => DOMAIN run.clamped_values \subseteq run.clamped_nodes

\* iteration k changed every node by less than the threshold
BelowThresholdAt(k) == ChangeAt(k) < self.threshold

\* C27: a run whose maxChange is below the threshold for the first time in
\* iteration number max_iterations returns converged = true and iterations =
\* max_iterations; a result has converged = false only if no iteration of
\* the run had maxChange below the threshold.
C27_ConvergedAtBudget ==
    pc = "done" =>
      /\ ( /\ run.iterations = self.max_iterations
           /\ self.max_iterations >= 1
           /\ BelowThresholdAt(self.max_iterations)
           /\ \A k \in 1..(self.max_iterations - 1) : ~BelowThresholdAt(k) )
         => (result.converged /\ result.iterations = self.max_iterations)
      /\ ~result.converged => \A k \in 1..result.iterations : ~BelowThresholdAt(k)

\* a run has returned that converged in the last iteration of a budget of at
\* least two
C27_Witness ==
    /\ pc = "done"
    /\ self.max_iterations >= 2
    /\ result.iterations = self.max_iterations
    /\ result.converged
    /\ BelowThresholdAt(self.max_iterations)
    /\ \A k \in 1..(self.max_iterations - 1) : ~BelowThresholdAt(k)

\* the state s with node x at the value v
StateWith(s, x, v) == [s EXCEPT ![x] = v]

\* C28: when node X is clamped with a clamp value v that is not the value
\* x0 the run starts X from, the nodes X leads to get their iteration-1
\* values from x0, X itself is v from iteration 1 on, and the values of
\* iteration 2 and later are computed from v.
C28_ClampValueFromIteration2 ==
    InRun =>
      \A x \in run.clamped_nodes \cap DOMAIN run.clamped_values :
         run.clamped_values[x] # run.current_state[x] =>
           /\ StateAt(0)[x] = run.current_state[x]
           /\ \A k \in 1..run.iterations : StateAt(k)[x] = run.clamped_values[x]
           /\ \A i \in NodeIds \ run.clamped_nodes :
                 /\ run.iterations >= 1 =>
                       StateAt(1)[i] =
                          Activation(self.activation,
                                     WeightedSum(StateWith(StateAt(0), x, run.current_state[x]), i))
                 /\ \A k \in 2..run.iterations :
                       StateAt(k)[i] =
                          Activation(self.activation,
                                     WeightedSum(StateWith(StateAt(k - 1), x, run.clamped_values[x]), i))

\* A is clamped at 0.7 in a first run that started it elsewhere, B follows
\* A, and B's values of iterations 1 and 2 are not what the other value of
\* A would have given
C28_Witness ==
    /\ InRun
    /\ FirstRun
    /\ run.iterations >= 2
    /\ run.clamped_nodes = {"A"}
    /\ "A" \in DOMAIN run.clamped_values
    /\ run.clamped_values["A"] # self.initial_state["A"]
    /\ Get(self.graph.weight, <<"A", "B">>, 0) # 0
    /\ StateAt(1)["B"] #
          Activation(self.activation,
                     WeightedSum(StateWith(StateAt(0), "A", run.clamped_values["A"]), "B"))
    /\ StateAt(2)["B"] #
          Activation(self.activation,
                     WeightedSum(StateWith(StateAt(1), "A", self.initial_state["A"]), "B"))

\* ------------------------------------------------------------- termination
\* run_simulation is straight-line code around one loop: once called it takes
\* its next iteration, and returns when the loop condition fails.  The runs
\* are those with the smallest threshold, 0.0001, which stop last, from
\* B = 0.
InitLive == Init /\ self.threshold = 1 /\ self.initial_state["B"] = 0

SpecLive == InitLive /\ [][Next]_vars /\ WF_vars(Iterate) /\ WF_vars(Finish)

\* C18: a run that has started, on whatever graph (cycles and self-loops
\* included) and with whatever clamp set, returns its result, and never makes
\* more than max_iterations iterations on the way.
C18_Termination ==
    /\ [](InRun => run.iterations <= self.max_iterations)
    /\ (pc = "loop") ~> (pc = "done" /\ result.iterations <= self.max_iterations)

\* a run on a graph with a self-loop, one node clamped, has used up its
\* budget without converging and returned
C18_Witness ==
    /\ pc = "done"
    /\ \E e \in 1..Len(self.edges) : self.edges[e].source = self.edges[e].target
    /\ run.clamped_nodes = {"B"}
    /\ result.iterations = self.max_iterations
    /\ self.max_iterations >= 2
    /\ ~result.converged

\* ------------------------------------------------ the module-level calls
CallNodeLists ==
    { <<>>,
      <<Node("A", Scale, "driver"), Node("B", 0, "regular")>>,
      <<Node("A", 0, "regular"), Node("B", Half, "output")>> }

CallEdgeLists ==
    { <<Edge("A", "B", Scale), Edge("B", "A", 0)>>,
      <<Edge("A", "B", Scale), Edge("B", "A", Scale)>>,
      <<Edge("A", "B", Half), Edge("Z", "B", Scale)>> }

CallClampChoices ==
    { [nodes |-> {}, values |-> EmptyDict],
      [nodes |-> {"A"}, values |-> ("A" :> 7000)],
      [nodes |-> {"B"}, values |-> EmptyDict] }

ArgsOver(edge_lists, thresholds, model_values, scenario_values) ==
    { [edges |-> es,
       activation_function |-> a,
       threshold |-> t,
       max_iterations |-> m,
       model_initial_values |-> mv,
       scenario_initial_values |-> sv,
       clamped_nodes |-> c.nodes,
       clamped_values |-> c.values] :
        es \in edge_lists,
        a \in ActivationNames \cup {"linear"},
        t \in thresholds,
        m \in 0..MaxIter,
        mv \in model_values,
        sv \in scenario_values,
        c \in CallClampChoices }

\* the calls whose overrides are numbers, and those with an override that
\* float() refuses
CallArgs ==
    ArgsOver(CallEdgeLists, Thresholds,
             {EmptyDict, ("A" :> 0 @@ "B" :> 0)},
             {EmptyDict, ("A" :> Scale), ("B" :> 7000)})
    \cup ArgsOver({<<Edge("A", "B", Scale), Edge("B", "A", Scale)>>}, {1},
                  {EmptyDict, ("A" :> None)},
                  {EmptyDict, ("B" :> NotNumeric)})

InitCalls ==
    /\ self = NoResult
    /\ run = NoRun
    /\ pc = "idle"
    /\ result = NoResult
    /\ runs = 0
    /\ heap \in { ("nodes" :> ns) : ns \in CallNodeLists }
    /\ args \in CallArgs
    /\ phase = "idle"
    /\ refs = NoResult
    /\ cmp_clamped_values = EmptyDict
    /\ baseline_results = NoResult
    /\ scenario_results = NoResult
    /\ ret = NoResult
    /\ first = EmptyDict
    /\ repeated = {}
    /\ last_call = "none"

\* a module-level call has returned or raised `value`
Returned(name, value) ==
    /\ ret' = value
    /\ phase' = "idle"
    /\ last_call' = name
    /\ first' = IF name \in DOMAIN first THEN first ELSE (name :> value) @@ first
    /\ repeated' = IF name \in DOMAIN first THEN repeated \cup {name} ELSE repeated

\* the caller calls run_simulation with its node list and arguments
CallRunSimulation ==
    /\ phase = "idle"
    /\ LET nodes == heap["nodes"]
           simulator == NewSimulator(nodes, args.edges, args.activation_function,
                                     args.threshold, args.max_iterations)
       IN  IF nodes = <<>> \/ ~simulator.ok
           THEN /\ Returned("run_simulation", SimulationFailed(simulator.error))
                /\ UNCHANGED <<self, run, pc>>
           ELSE /\ self' = simulator
                /\ run' = RunStart(simulator, args.clamped_nodes, args.clamped_values)
                /\ pc' = "loop"
                /\ phase' = "run_simulation"
                /\ UNCHANGED <<ret, last_call, first, repeated>>
    /\ UNCHANGED <<heap, refs, args, cmp_clamped_values, baseline_results,
                   scenario_results, result, runs>>

\* run_simulation's simulator has left its loop: lines 215-233 and 300-311
ReturnRunSimulation ==
    /\ phase = "run_simulation"
    /\ pc = "loop"
    /\ ~LoopGuard(self, run)
    /\ result' = RunResult(self, run)
    /\ pc' = "done"
    /\ Returned("run_simulation", RunSimulationReturn(result', args.clamped_nodes))
    /\ UNCHANGED <<self, run, runs, heap, refs, args, cmp_clamped_values,
                   baseline_results, scenario_results>>

\* run_baseline_scenario_comparison up to its first run_simulation call:
\* lines 566-602
CallComparison ==
    /\ phase = "idle"
    /\ LET baseline_nodes == deepcopy("nodes", "baseline_nodes")
           scenario_nodes == deepcopy("nodes", "scenario_nodes")
           h1 == (baseline_nodes :> heap["nodes"]) @@ heap
           h2 == (scenario_nodes :> h1["nodes"]) @@ h1
           h3 == [h2 EXCEPT ![baseline_nodes] =
                     ApplyOverrides(h2[baseline_nodes], args.model_initial_values)]
       IN  /\ heap' = [h3 EXCEPT ![scenario_nodes] =
                          ApplyOverrides(h3[scenario_nodes], args.scenario_initial_values)]
           /\ cmp_clamped_values' = ClampedValuesFrom(heap'[scenario_nodes], args.clamped_nodes)
           /\ refs' = [baseline_nodes |-> baseline_nodes, scenario_nodes |-> scenario_nodes]
    /\ baseline_results' = NoResult
    /\ scenario_results' = NoResult
    /\ LET nodes == heap'[refs'.baseline_nodes]
           simulator == NewSimulator(nodes, args.edges, args.activation_function,
                                     args.threshold, args.max_iterations)
       IN  IF nodes = <<>> \/ ~simulator.ok
           THEN /\ Returned("run_baseline_scenario_comparison",
                            ComparisonFailed(SimulationFailed(simulator.error)))
                /\ UNCHANGED <<self, run, pc>>
           ELSE /\ self' = simulator
                /\ run' = RunStart(simulator, BaselineClamps(args.clamped_nodes), EmptyDict)
                /\ pc' = "loop"
                /\ phase' = "baseline"
                /\ UNCHANGED <<ret, last_call, first, repeated>>
    /\ UNCHANGED <<args, result, runs>>

\* the baseline run returns and the scenario run is called: lines 596-612
ReturnBaseline ==
    /\ phase = "baseline"
    /\ pc = "loop"
    /\ ~LoopGuard(self, run)
    /\ result' = RunResult(self, run)
    /\ baseline_results' = RunSimulationReturn(result', {})
    /\ LET nodes == heap[refs.scenario_nodes]
           simulator == NewSimulator(nodes, args.edges, args.activation_function,
                                     args.threshold, args.max_iterations)
       IN  IF nodes = <<>> \/ ~simulator.ok
           THEN /\ Returned("run_baseline_scenario_comparison",
                            ComparisonFailed(SimulationFailed(simulator.error)))
                /\ pc' = "done"
                /\ UNCHANGED <<self, run>>
           ELSE /\ self' = simulator
                /\ run' = RunStart(simulator, args.clamped_nodes, cmp_clamped_values)
                /\ pc' = "loop"
                /\ phase' = "scenario"
                /\ UNCHANGED <<ret, last_call, first, repeated>>
    /\ UNCHANGED <<heap, refs, args, cmp_clamped_values, scenario_results, runs>>

\* the scenario run returns and the comparison with it: lines 604-670
ReturnComparison ==
    /\ phase = "scenario"
    /\ pc = "loop"
    /\ ~LoopGuard(self, run)
    /\ result' = RunResult(self, run)
    /\ pc' = "done"
    /\ scenario_results' = RunSimulationReturn(result', args.clamped_nodes)
    /\ Returned("run_baseline_scenario_comparison",
                ComparisonReturn(baseline_results, scenario_results', args.clamped_nodes))
    /\ UNCHANGED <<self, run, runs, heap, refs, args, cmp_clamped_values, baseline_results>>

\* an iteration of the running simulator, whichever call it serves
IterateCall ==
    /\ phase # "idle"
    /\ Iterate

NextCalls ==
    \/ CallRunSimulation
    \/ ReturnRunSimulation
    \/ CallComparison
    \/ ReturnBaseline
    \/ ReturnComparison
    \/ IterateCall

SpecCalls == InitCalls /\ [][NextCalls]_vars

\* --------------------------------------- the claims on the module-level calls
Comparison == "run_baseline_scenario_comparison"

\* C8: a call of run_simulation, and one of run_baseline_scenario_comparison,
\* returns (or raises) what the first call of that function with these
\* arguments returned, whatever was called before it or in between.
C8_Determinism ==
    \A name \in DOMAIN first : last_call = name => ret = first[name]

\* a second comparison, with overrides, has returned after a run_simulation
C8_Witness ==
    /\ phase = "idle"
    /\ last_call = Comparison
    /\ Comparison \in repeated
    /\ "run_simulation" \in DOMAIN first
    /\ ret.ok
    /\ heap[refs.baseline_nodes] # heap["nodes"]
    /\ heap[refs.scenario_nodes] # heap["nodes"]
    /\ ret.comparisonFinalState # ret.baselineFinalState

\* C9: no step of run_simulation or run_baseline_scenario_comparison, of a
\* call that returns or of one that raises, changes the caller's node list
\* (the nodes' values in it), edge list or override mappings.
C9_InputsNotMutated ==
    [][heap'["nodes"] = heap["nodes"] /\ args' = args]_vars

\* a comparison has returned whose two copies both took an override
C9_Witness ==
    /\ phase = "idle"
    /\ last_call = Comparison
    /\ ret.ok
    /\ refs.baseline_nodes # "nodes"
    /\ refs.scenario_nodes # "nodes"
    /\ heap[refs.baseline_nodes] # heap["nodes"]
    /\ heap[refs.scenario_nodes] # heap["nodes"]
    /\ heap[refs.scenario_nodes] # heap[refs.baseline_nodes]

\* the iterations a returned time series records, and whether its last
\* iteration changed every node by less than the threshold
SeriesIterations(ts) == SetMax({Len(ts[n]) - 1 : n \in DOMAIN ts})

SeriesConverged(ts) ==
    /\ SeriesIterations(ts) >= 1
    /\ \A n \in DOMAIN ts :
          Abs(ts[n][Len(ts[n])] - ts[n][Len(ts[n]) - 1]) < args.threshold

ComparisonReturned == phase = "idle" /\ last_call = Comparison /\ ret.ok

\* C10: a comparison's converged is true exactly when both of its runs
\* converged, and its iterations is the larger of the two runs' counts.
C10_ConvergedAndIterations ==
    ComparisonReturned =>
      /\ ret.converged <=> (baseline_results.converged /\ scenario_results.converged)
      /\ ret.converged <=> (SeriesConverged(ret.baselineTimeSeries)
                            /\ SeriesConverged(ret.comparisonTimeSeries))
      /\ ret.iterations >= baseline_results.iterations
      /\ ret.iterations >= scenario_results.iterations
      /\ ret.iterations \in {baseline_results.iterations, scenario_results.iterations}
      /\ ret.iterations = Max2(SeriesIterations(ret.baselineTimeSeries),
                               SeriesIterations(ret.comparisonTimeSeries))

\* the baseline run converged first and the scenario run never did
C10_Witness ==
    /\ ComparisonReturned
    /\ baseline_results.converged
    /\ ~scenario_results.converged
    /\ baseline_results.iterations < scenario_results.iterations
    /\ ret.iterations = scenario_results.iterations
    /\ ~ret.converged

\* the node ids of the caller's graph
GraphNodeIds == { heap["nodes"][i].id : i \in 1..Len(heap["nodes"]) }

\* C11: in a comparison's result deltaFinalState[n] is exactly
\* comparisonFinalState[n] - baselineFinalState[n] for every node n,
\* impactMetrics[n].delta is the same number, and the four mappings have
\* exactly the graph's node ids as keys.
C11_ComparisonSymmetry ==
    ComparisonReturned =>
      /\ DOMAIN ret.deltaFinalState = GraphNodeIds
      /\ DOMAIN ret.impactMetrics = GraphNodeIds
      /\ DOMAIN ret.baselineFinalState = GraphNodeIds
      /\ DOMAIN ret.comparisonFinalState = GraphNodeIds
      /\ \A n \in GraphNodeIds :
            /\ ret.deltaFinalState[n] =
                  ret.comparisonFinalState[n] - ret.baselineFinalState[n]
            /\ ret.impactMetrics[n].delta = ret.deltaFinalState[n]
            /\ ret.impactMetrics[n].id = n

\* a comparison whose two runs ended apart on one node and together on another
C11_Witness ==
    /\ ComparisonReturned
    /\ \E n \in GraphNodeIds : ret.deltaFinalState[n] < 0
    /\ \E n \in GraphNodeIds : ret.deltaFinalState[n] = 0
    /\ baseline_results.iterations # scenario_results.iterations

\* the value the scenario run's node list declares for node x: the override
\* when there is one, else the caller's value
ScenarioInitial(x) ==
    IF x \in DOMAIN args.scenario_initial_values
    THEN args.scenario_initial_values[x]
    ELSE LET i == CHOOSE i \in 1..Len(heap["nodes"]) :
                     /\ heap["nodes"][i].id = x
                     /\ \A j \in (i + 1)..Len(heap["nodes"]) : heap["nodes"][j].id # x
         IN  heap["nodes"][i].value

SameConfiguration ==
    /\ self.edges = [i \in 1..Len(args.edges) |-> normalize_edge(args.edges[i])]
    /\ self.activation = args.activation_function
    /\ self.threshold = args.threshold
    /\ self.max_iterations = args.max_iterations

\* C12: both runs of a comparison get the caller's edges, activation
\* function, threshold and max_iterations; the baseline run clamps no node
\* (every node follows the transition rule), and the scenario run holds
\* every node of the clamp set at its scenario initial value at every step
\* t >= 0, in the run and in the returned comparisonTimeSeries.
C12_ClampsOnlyInScenario ==
    /\ phase = "baseline" =>
         /\ SameConfiguration
         /\ run.clamped_nodes = {}
         /\ \A k \in 1..run.iterations : \A i \in NodeIds :
               StateAt(k)[i] = Activation(self.activation, WeightedSum(StateAt(k - 1), i))
    /\ phase = "scenario" =>
         /\ SameConfiguration
         /\ run.clamped_nodes = args.clamped_nodes
         /\ \A x \in args.clamped_nodes \cap NodeIds : \A t \in 0..run.iterations :
               StateAt(t)[x] = ScenarioInitial(x)
    /\ ComparisonReturned =>
         /\ ret.clampedNodes = args.clamped_nodes
         /\ baseline_results.clampedNodes = {}
         /\ \A x \in args.clamped_nodes \cap GraphNodeIds :
               \A t \in 1..Len(ret.comparisonTimeSeries[x]) :
                  ret.comparisonTimeSeries[x][t] = ScenarioInitial(x)

\* a comparison has returned whose scenario run held A at its override for
\* two iterations while the baseline run moved it
C12_Witness ==
    /\ ComparisonReturned
    /\ args.clamped_nodes = {"A"}
    /\ "A" \in DOMAIN args.scenario_initial_values
    /\ scenario_results.iterations >= 2
    /\ ret.comparisonTimeSeries["A"][3] = args.scenario_initial_values["A"]
    /\ ret.baselineTimeSeries["A"][2] # ret.baselineTimeSeries["A"][1]

\* the value the baseline run's node list declares for node x: the override
\* when there is one, else the caller's value
BaselineInitial(x) ==
    IF x \in DOMAIN args.model_initial_values
    THEN args.model_initial_values[x]
    ELSE LET i == CHOOSE i \in 1..Len(heap["nodes"]) :
                     /\ heap["nodes"][i].id = x
                     /\ \A j \in (i + 1)..Len(heap["nodes"]) : heap["nodes"][j].id # x
         IN  heap["nodes"][i].value

\* the types of a node list, in its order
TypesOf(node_list) == [i \in 1..Len(node_list) |-> node_list[i].type]

\* C21: the baseline run of a comparison starts node n from
\* model_initial_values[n] when there is such an entry and from n's declared
\* value otherwise, the scenario run from scenario_initial_values[n] or the
\* declared value; the node's type changes neither, and no override of one
\* run shows in the other run's initial values.
C21_InitialValuesPerRun ==
    /\ phase = "baseline" =>
         /\ \A x \in NodeIds : StateAt(0)[x] = BaselineInitial(x)
         /\ TypesOf(self.nodes) = TypesOf(heap["nodes"])
    /\ phase = "scenario" =>
         /\ \A x \in NodeIds : StateAt(0)[x] = ScenarioInitial(x)
         /\ TypesOf(self.nodes) = TypesOf(heap["nodes"])
    /\ ComparisonReturned =>
         \A x \in GraphNodeIds :
            /\ ret.baselineTimeSeries[x][1] = BaselineInitial(x)
            /\ baseline_results.initialValues[x] = BaselineInitial(x)
            /\ ret.comparisonTimeSeries[x][1] = ScenarioInitial(x)
            /\ scenario_results.initialValues[x] = ScenarioInitial(x)

\* a comparison has returned whose baseline run had overrides for both nodes
\* and whose scenario run had one for the node that is not a driver
C21_Witness ==
    /\ ComparisonReturned
    /\ DOMAIN args.model_initial_values = {"A", "B"}
    /\ DOMAIN args.scenario_initial_values = {"B"}
    /\ heap["nodes"][1].type = "driver"
    /\ ret.baselineTimeSeries["A"][1] # heap["nodes"][1].value
    /\ ret.comparisonTimeSeries["A"][1] = heap["nodes"][1].value
    /\ ret.comparisonTimeSeries["B"][1] # ret.baselineTimeSeries["B"][1]
    /\ ret.comparisonTimeSeries["B"][1] # heap["nodes"][2].value

\* the returned series of node n differ by CmpDiff(n, t) at entry t of their
\* common prefix, which has CmpLen(n) entries
CmpLen(n) == Min2(Len(ret.baselineTimeSeries[n]), Len(ret.comparisonTimeSeries[n]))

CmpDiff(n, t) == ret.comparisonTimeSeries[n][t] - ret.baselineTimeSeries[n][t]

CmpMaxAbsDiff(n) == SetMax({Abs(CmpDiff(n, t)) : t \in 1..CmpLen(n)})

\* the label of node n when its series are classified against the change g
CmpLabel(n, g) ==
    fuzzy_categorize_direction(Truncated(ret.baselineTimeSeries[n], CmpLen(n)),
                               Truncated(ret.comparisonTimeSeries[n], CmpLen(n)),
                               g, DefaultEpsilon).label

\* C23: every node of a comparison, clamped or not, is classified against
\* the largest max|diff| of the nodes outside the clamp set, the diff taken
\* over the common prefix of the node's two series.
C23_GlobalMaxChangeSkipsClamped ==
    (ComparisonReturned /\ GraphNodeIds \ args.clamped_nodes # {}) =>
      LET g == SetMax({CmpMaxAbsDiff(n) : n \in GraphNodeIds \ args.clamped_nodes})
      IN  \A n \in GraphNodeIds : ret.impactMetrics[n].direction = CmpLabel(n, g)

\* the clamped node A moved further from the baseline than B did, and B's
\* label is not the one that A's change would have given it
C23_Witness ==
    /\ ComparisonReturned
    /\ args.clamped_nodes = {"A"}
    /\ CmpMaxAbsDiff("A") > CmpMaxAbsDiff("B")
    /\ CmpMaxAbsDiff("B") > 0
    /\ ret.iterations >= 2
    /\ ret.impactMetrics["A"].direction = CmpLabel("A", CmpMaxAbsDiff("B"))
    /\ ret.impactMetrics["B"].direction # CmpLabel("B", CmpMaxAbsDiff("A"))

RECURSIVE CmpTwiceAuc(_, _)
\* twice the trapezoidal sum of node n's differences from entry t on
CmpTwiceAuc(n, t) ==
    IF t >= CmpLen(n) THEN 0
    ELSE CmpDiff(n, t) + CmpDiff(n, t + 1) + CmpTwiceAuc(n, t + 1)

Sustained(label, word) == Len(label) = 2 /\ label[2] = word

\* C29 as stated: a node of a comparison whose label is a sustained
\* "<mag> Increase" has impactMetrics[n].delta > 0, and one labelled
\* "<mag> Decrease" has delta < 0, also when the two runs recorded series of
\* different lengths.
C29_SustainedLabelMatchesDelta ==
    ComparisonReturned =>
      \A n \in GraphNodeIds :
         /\ Sustained(ret.impactMetrics[n].direction, "Increase")
               => ret.impactMetrics[n].delta > 0
         /\ Sustained(ret.impactMetrics[n].direction, "Decrease")
               => ret.impactMetrics[n].delta < 0

\* the last difference of node n's series over their common prefix
CmpLastDiff(n) == CmpDiff(n, CmpLen(n))

\* C29: a node of a comparison labelled with a sustained "<mag> Increase"
\* (resp. "<mag> Decrease") has a last difference over the common prefix of
\* its two series above epsilon (resp. below -epsilon), or one of exactly
\* epsilon in magnitude with auc > 0 (resp. < 0); impactMetrics[n].delta is
\* that last difference, and has the label's sign when it is beyond
\* epsilon, if the two runs recorded series of the same length.
C29_SustainedLabelMatchesLastDiff ==
    ComparisonReturned =>
      \A n \in GraphNodeIds :
         LET m == ret.impactMetrics[n]
             same_length == Len(ret.baselineTimeSeries[n]) = Len(ret.comparisonTimeSeries[n])
         IN  /\ Sustained(m.direction, "Increase") =>
                   /\ \/ CmpLastDiff(n) > DefaultEpsilon
                      \/ Abs(CmpLastDiff(n)) = DefaultEpsilon /\ m.auc > 0
                   /\ (same_length /\ CmpLastDiff(n) > DefaultEpsilon) => m.delta > 0
             /\ Sustained(m.direction, "Decrease") =>
                   /\ \/ CmpLastDiff(n) < -DefaultEpsilon
                      \/ Abs(CmpLastDiff(n)) = DefaultEpsilon /\ m.auc < 0
                   /\ (same_length /\ CmpLastDiff(n) < -DefaultEpsilon) => m.delta < 0
             /\ same_length => m.delta = CmpLastDiff(n)

\* the baseline run recorded one entry more than the scenario run, node A is
\* labelled with a sustained increase from the last common entry, and the
\* two runs ended on the same value of A
C29_Witness ==
    /\ ComparisonReturned
    /\ Len(ret.baselineTimeSeries["A"]) > Len(ret.comparisonTimeSeries["A"])
    /\ CmpLen("A") >= 2
    /\ Sustained(ret.impactMetrics["A"].direction, "Increase")
    /\ CmpLastDiff("A") > DefaultEpsilon
    /\ ret.impactMetrics["A"].delta = 0

\* ------------------------------------- the two runs of a comparison, in any order
\* The comparison calls run_simulation twice, one call after the other.  Here
\* the two calls are scheduled freely: either may start first and their
\* iterations may interleave.  self, run and pc hold one entry per call.
RunNames == {"baseline", "scenario"}

\* One simulator instance serves both runs.
SharedSimulator(k) == "baseline"

\* line 286: every call of run_simulation constructs its own FCMSimulator
SimulatorOf(k) == k

NoFrames ==
    /\ self' = [k \in RunNames |-> NoResult]
    /\ run' = [k \in RunNames |-> NoRun]
    /\ pc' = [k \in RunNames |-> "idle"]

OrderArgs ==
    { a \in CallArgs : a.activation_function \in {"tanh", "relu"} /\ a.threshold = 1 }

InitOrder ==
    /\ self = [k \in RunNames |-> NoResult]
    /\ run = [k \in RunNames |-> NoRun]
    /\ pc = [k \in RunNames |-> "idle"]
    /\ result = NoResult
    /\ runs = 0
    /\ heap \in { ("nodes" :> ns) : ns \in CallNodeLists \ {<<>>} }
    /\ args \in OrderArgs
    /\ phase = "idle"
    /\ refs = NoResult
    /\ cmp_clamped_values = EmptyDict
    /\ baseline_results = NoResult
    /\ scenario_results = NoResult
    /\ ret = NoResult
    /\ first = EmptyDict
    /\ repeated = {}
    /\ last_call = "none"

\* lines 566-593: the copies, the overrides and the clamp values
OrderCall ==
    /\ phase = "idle"
    /\ LET baseline_nodes == deepcopy("nodes", "baseline_nodes")
           scenario_nodes == deepcopy("nodes", "scenario_nodes")
           h1 == (baseline_nodes :> heap["nodes"]) @@ heap
           h2 == (scenario_nodes :> h1["nodes"]) @@ h1
           h3 == [h2 EXCEPT ![baseline_nodes] =
                     ApplyOverrides(h2[baseline_nodes], args.model_initial_values)]
       IN  /\ heap' = [h3 EXCEPT ![scenario_nodes] =
                          ApplyOverrides(h3[scenario_nodes], args.scenario_initial_values)]
           /\ cmp_clamped_values' = ClampedValuesFrom(heap'[scenario_nodes], args.clamped_nodes)
           /\ refs' = [baseline |-> baseline_nodes, scenario |-> scenario_nodes]
    /\ phase' = "comparison"
    /\ NoFrames
    /\ baseline_results' = NoResult
    /\ scenario_results' = NoResult
    /\ result' = NoResult
    /\ UNCHANGED <<args, runs, ret, first, repeated, last_call>>

\* lines 596-602 or 604-612 up to the loop: run_simulation is called for run k
OrderStart(k) ==
    /\ phase = "comparison"
    /\ pc[k] = "idle"
    /\ LET simulator == NewSimulator(heap[refs[k]], args.edges, args.activation_function,
                                     args.threshold, args.max_iterations)
       IN  IF ~simulator.ok
           THEN /\ Returned(Comparison, ComparisonFailed(SimulationFailed(simulator.error)))
                /\ NoFrames
           ELSE /\ self' = [self EXCEPT ![SimulatorOf(k)] = simulator]
                /\ run' = [run EXCEPT ![k] =
                              IF k = "baseline"
                              THEN RunStart(simulator, BaselineClamps(args.clamped_nodes),
                                            EmptyDict)
                              ELSE RunStart(simulator, args.clamped_nodes,
                                            cmp_clamped_values)]
                /\ pc' = [pc EXCEPT ![k] = "loop"]
                /\ UNCHANGED <<phase, ret, last_call, first, repeated>>
    /\ UNCHANGED <<heap, refs, args, cmp_clamped_values, baseline_results,
                   scenario_results, result, runs>>

\* one iteration of run k's loop: lines 191-214
OrderIterate(k) ==
    /\ phase = "comparison"
    /\ pc[k] = "loop"
    /\ LoopGuard(self[SimulatorOf(k)], run[k])
    /\ LET next == LoopBody(self[SimulatorOf(k)], run[k])
       IN  /\ self' = [self EXCEPT ![SimulatorOf(k)] = next.sim]
           /\ run' = [run EXCEPT ![k] = next.run]
    /\ UNCHANGED <<pc, result, runs>>
    /\ UNCHANGED callVars

\* run k leaves its loop and run_simulation returns: lines 215-233, 300-311
OrderFinish(k) ==
    /\ phase = "comparison"
    /\ pc[k] = "loop"
    /\ ~LoopGuard(self[SimulatorOf(k)], run[k])
    /\ result' = RunResult(self[SimulatorOf(k)], run[k])
    /\ pc' = [pc EXCEPT ![k] = "done"]
    /\ IF k = "baseline"
       THEN /\ baseline_results' = RunSimulationReturn(result', {})
            /\ UNCHANGED scenario_results
       ELSE /\ scenario_results' = RunSimulationReturn(result', args.clamped_nodes)
            /\ UNCHANGED baseline_results
    /\ UNCHANGED <<self, run, runs, heap, refs, args, cmp_clamped_values, phase,
                   ret, first, repeated, last_call>>

\* both runs have returned: lines 624-670
OrderReturn ==
    /\ phase = "comparison"
    /\ \A k \in RunNames : pc[k] = "done"
    /\ Returned(Comparison,
                ComparisonReturn(baseline_results, scenario_results, args.clamped_nodes))
    /\ NoFrames
    /\ UNCHANGED <<result, runs, heap, refs, args, cmp_clamped_values,
                   baseline_results, scenario_results>>

NextOrder ==
    \/ OrderCall
    \/ \E k \in RunNames : OrderStart(k)
    \/ \E k \in RunNames : OrderIterate(k)
    \/ \E k \in RunNames : OrderFinish(k)
    \/ OrderReturn

SpecOrder == InitOrder /\ [][NextOrder]_vars

\* C13: whatever the order in which the two runs of a comparison start,
\* iterate and finish, the comparison returns the ComparisonResult that the
\* first comparison with these arguments returned, under whatever schedule
\* that one ran (the code's baseline-first order is one of them); and it
\* raises, a ValueError, under one schedule exactly if it does under every
\* other (when both runs fail, the message is that of the run that failed
\* first).
C13_OrderInsensitive ==
    (phase = "idle" /\ last_call = Comparison) =>
      /\ ret.ok = first[Comparison].ok
      /\ ret.ok => ret = first[Comparison]
      /\ ~ret.ok => ret.error = first[Comparison].error

\* a second comparison has returned whose baseline run was the last to finish,
\* after a scenario run that went another way
C13_Witness ==
    /\ phase = "idle"
    /\ Comparison \in repeated
    /\ ret.ok
    /\ result.timeSeries = ret.baselineTimeSeries
    /\ ret.baselineTimeSeries # ret.comparisonTimeSeries
    /\ baseline_results.iterations >= 2
    /\ scenario_results.iterations >= 2

\* --------------------------------------------------- the claims on failures
Raised == phase = "idle" /\ last_call # "none" /\ ~ret.ok

\* C15: with an empty node list, or with an activation function name other
\* than sigmoid, tanh and relu, every call raises ValueError and returns no
\* result; no simulator is constructed and no iteration runs, whatever
\* max_iterations is (0 included).
C15_RejectedAtConstruction ==
    (heap["nodes"] = <<>> \/ args.activation_function \notin ActivationNames) =>
      /\ self = NoResult
      /\ run = NoRun
      /\ pc = "idle"
      /\ phase = "idle"
      /\ result = NoResult
      /\ last_call # "none" => (~ret.ok /\ ret.error = "ValueError")

\* both functions have raised for an unknown activation function name, with
\* nodes and an iteration budget of 0
C15_Witness ==
    /\ Raised
    /\ heap["nodes"] # <<>>
    /\ args.activation_function \notin ActivationNames
    /\ args.max_iterations = 0
    /\ DOMAIN first = {"run_simulation", Comparison}
    /\ ret.error = "ValueError"

\* the value node i of the caller's list has in a run whose overrides are
\* initial_values
ValueInRun(i, initial_values) ==
    IF heap["nodes"][i].id \in DOMAIN initial_values
    THEN initial_values[heap["nodes"][i].id]
    ELSE heap["nodes"][i].value

\* a run with these overrides fails: it has no nodes, or no such activation
\* function, or a node value that is no number
RunFails(initial_values) ==
    \/ heap["nodes"] = <<>>
    \/ args.activation_function \notin {"sigmoid", "tanh", "relu"}
    \/ \E i \in 1..Len(heap["nodes"]) : ValueInRun(i, initial_values) \in {None, NotNumeric}

\* C17: a comparison one of whose runs fails, the baseline or the scenario
\* run, raises ValueError and returns nothing of a ComparisonResult; a
\* comparison returns only when neither run failed.
C17_EitherFailureFailsAll ==
    (phase = "idle" /\ last_call = Comparison) =>
      /\ (RunFails(args.model_initial_values) \/ RunFails(args.scenario_initial_values)) =>
            /\ ~ret.ok
            /\ ret.error = "ValueError"
            /\ DOMAIN ret = {"ok", "error", "message"}
      /\ ret.ok =>
            /\ ~RunFails(args.model_initial_values)
            /\ ~RunFails(args.scenario_initial_values)

\* the comparison has raised for a scenario run that failed after the
\* baseline run had returned its result
C17_Witness ==
    /\ Raised
    /\ last_call = Comparison
    /\ ~RunFails(args.model_initial_values)
    /\ RunFails(args.scenario_initial_values)
    /\ baseline_results # NoResult
    /\ baseline_results.iterations >= 1
    /\ scenario_results = NoResult

\* the baseline run failed: the scenario run was never started
C17_BaselineFailed ==
    /\ Raised
    /\ last_call = Comparison
    /\ RunFails(args.model_initial_values)
    /\ ~RunFails(args.scenario_initial_values)
    /\ baseline_results = NoResult

\* ------------------------------------------------- the constructor on raw nodes
RawValues == {0, Scale, None, NotNumeric, NaN, Infinity, NegInfinity}

\* a node dict as the caller wrote it, without a value
NodeWithoutValue(id, type) == [id |-> id, type |-> type]

RawNodes(id, type) ==
    { Node(id, v, type) : v \in RawValues } \cup {NodeWithoutValue(id, type)}

RawNodeLists ==
    { <<a, b>> : a \in RawNodes("A", "driver"), b \in RawNodes("B", "regular") }

InitConstruct ==
    /\ self = NoResult
    /\ run = NoRun
    /\ pc = "idle"
    /\ result = NoResult
    /\ runs = 0
    /\ heap \in { ("nodes" :> ns) : ns \in RawNodeLists }
    /\ args \in { a \in CallArgs :
                    /\ a.edges = <<Edge("A", "B", Scale), Edge("B", "A", 0)>>
                    /\ a.threshold = 1
                    /\ a.max_iterations = MaxIter
                    /\ a.model_initial_values = EmptyDict
                    /\ a.scenario_initial_values = EmptyDict
                    /\ a.clamped_nodes = {} }
    /\ phase = "idle"
    /\ refs = NoResult
    /\ cmp_clamped_values = EmptyDict
    /\ baseline_results = NoResult
    /\ scenario_results = NoResult
    /\ ret = NoResult
    /\ first = EmptyDict
    /\ repeated = {}
    /\ last_call = "none"

\* FCMSimulator(nodes, edges, ...): lines 85-158
Construct ==
    /\ pc = "idle"
    /\ self' = NewSimulator(heap["nodes"], args.edges, args.activation_function,
                            args.threshold, args.max_iterations)
    /\ pc' = "constructed"
    /\ UNCHANGED <<run, result, runs>>
    /\ UNCHANGED callVars

NextConstruct == Construct

SpecConstruct == InitConstruct /\ [][NextConstruct]_vars

\* the nodes of the caller's list whose value is missing, non-numeric, NaN or
\* infinite
Offending ==
    { i \in 1..Len(heap["nodes"]) :
        \/ "value" \notin DOMAIN heap["nodes"][i]
        \/ ~IsFinite(Get(heap["nodes"][i], "value", 0)) }

\* C16: construction fails with a ValueError naming the offending node
\* whenever a node's value is missing, non-numeric, NaN or infinite, and a
\* constructed simulator's initial state holds finite numbers only.
C16_NonFiniteRejected ==
    pc = "constructed" =>
      /\ Offending # {} =>
            /\ ~self.ok
            /\ self.exception = "ValueError"
            /\ self.node \in { heap["nodes"][i].id : i \in Offending }
      /\ self.ok => \A n \in DOMAIN self.initial_state : IsFinite(self.initial_state[n])

\* ------------------------------------------- fuzzy_categorize_direction, called
SeriesOver(values, n) == [1..n -> values]

\* pairs of series of one length, 0 (empty) to MaxLen, and two pairs of
\* different lengths
FuzzySeriesPairs ==
    { <<b, sc>> : b \in SeriesOver({0, 1}, 0), sc \in SeriesOver({0}, 0) }
    \cup UNION { { <<b, sc>> : b \in SeriesOver({0, 1}, n),
                               sc \in SeriesOver({-50, -2, 0, 1, 2, 50}, n) } :
                 n \in 1..MaxLen }
    \cup { <<(<<0>>), (<<0, 2>>)>>, <<(<<1, 0>>), (<<2>>)>> }

FuzzyInputs ==
    { [baseline_series |-> p[1],
       scenario_series |-> p[2],
       global_max_change |-> g,
       epsilon |-> e] :
        p \in FuzzySeriesPairs, g \in {0, 9, 49, 99, 499}, e \in {1, 2} }

InitFuzzy ==
    /\ self = NoResult
    /\ run = NoRun
    /\ pc = "idle"
    /\ result = NoResult
    /\ runs = 0
    /\ heap = EmptyDict
    /\ args \in FuzzyInputs
    /\ phase = "idle"
    /\ refs = NoResult
    /\ cmp_clamped_values = EmptyDict
    /\ baseline_results = NoResult
    /\ scenario_results = NoResult
    /\ ret = NoResult
    /\ first = EmptyDict
    /\ repeated = {}
    /\ last_call = "none"

\* fuzzy_categorize_direction(baseline_series, scenario_series,
\* global_max_change, epsilon) is called and returns or raises
CallFuzzy ==
    /\ phase = "idle"
    /\ last_call = "none"
    /\ Returned("fuzzy_categorize_direction",
                fuzzy_categorize_direction(args.baseline_series, args.scenario_series,
                                           args.global_max_change, args.epsilon))
    /\ UNCHANGED <<heap, args, refs, cmp_clamped_values, baseline_results,
                   scenario_results>>
    /\ UNCHANGED simVars

NextFuzzy == CallFuzzy

SpecFuzzy == InitFuzzy /\ [][NextFuzzy]_vars

FuzzyReturned == last_call = "fuzzy_categorize_direction"

\* the difference scenario - baseline at step i
DiffAt(i) == args.scenario_series[i] - args.baseline_series[i]

Steps == 1..Len(args.baseline_series)

\* C19: for two non-empty series of one length that agree at every step,
\* the label is "No Change", for every non-negative global_max_change, 0
\* included.
C19_ZeroDiffIsNoChange ==
    ( /\ FuzzyReturned
      /\ Len(args.baseline_series) >= 1
      /\ Len(args.scenario_series) = Len(args.baseline_series)
      /\ \A i \in Steps : DiffAt(i) = 0
      /\ args.global_max_change >= 0 ) =>
        /\ ret.ok
        /\ ret.label = <<"No Change">>

\* two equal series that are not zero throughout, with global_max_change 0
C19_Witness ==
    /\ FuzzyReturned
    /\ Len(args.baseline_series) = MaxLen
    /\ args.scenario_series = args.baseline_series
    /\ \E i \in Steps : args.baseline_series[i] # 0
    /\ args.global_max_change = 0
    /\ ret.label = <<"No Change">>

\* the quantities of the reference cascade, from the two series
RefMaxDiff == SetMax({Abs(DiffAt(i)) : i \in Steps})

RefFinal == DiffAt(Len(args.baseline_series))

RefDenominator == args.global_max_change + args.epsilon

\* the sign changes met walking the non-zero diffs from step i on, `last`
\* being the sign of the latest non-zero diff before step i (0: none yet)
RECURSIVE RefCrossings(_, _)
RefCrossings(i, last) ==
    IF i > Len(args.baseline_series) THEN 0
    ELSE IF DiffAt(i) = 0 THEN RefCrossings(i + 1, last)
    ELSE LET sign == IF DiffAt(i) > 0 THEN 1 ELSE -1
         IN  (IF last # 0 /\ sign # last THEN 1 ELSE 0) + RefCrossings(i + 1, sign)

\* twice the trapezoid area under the diffs from step i on
RECURSIVE RefTwiceAuc(_)
RefTwiceAuc(i) ==
    IF i >= Len(args.baseline_series) THEN 0
    ELSE DiffAt(i) + DiffAt(i + 1) + RefTwiceAuc(i + 1)

RefMag ==
    IF 10 * RefMaxDiff > 7 * RefDenominator THEN "High"
    ELSE IF 10 * RefMaxDiff > 3 * RefDenominator THEN "Medium"
    ELSE "Low"

\* the labels the cascade allows (two where rule 3 meets an AUC of 0, whose
\* sign the rule does not settle)
RefLabels ==
    IF 10 * RefMaxDiff <= RefDenominator THEN {<<"No Change">>}
    ELSE IF RefCrossings(1, 0) > 1 THEN {<<"Oscillating", RefMag>>}
    ELSE IF Abs(RefFinal) < args.epsilon \/ 20 * Abs(RefFinal) < RefMaxDiff
    THEN IF RefTwiceAuc(1) > 0 THEN {<<"Temporary", RefMag, "Increase">>}
         ELSE IF RefTwiceAuc(1) < 0 THEN {<<"Temporary", RefMag, "Decrease">>}
         ELSE {<<"Temporary", RefMag, "Increase">>, <<"Temporary", RefMag, "Decrease">>}
    ELSE IF RefFinal > args.epsilon THEN {<<RefMag, "Increase">>}
    ELSE IF RefFinal < -args.epsilon THEN {<<RefMag, "Decrease">>}
    ELSE IF RefTwiceAuc(1) > 0 THEN {<<RefMag, "Increase">>}
    ELSE IF RefTwiceAuc(1) < 0 THEN {<<RefMag, "Decrease">>}
    ELSE {<<"No Change">>}

\* C20: for non-empty series of one length the label is the one of the
\* cascade, its rules tried in this order: (1) rel <= 0.1, "No Change";
\* (2) more than one sign crossing among the non-zero diffs, "Oscillating";
\* (3) |final delta| < max(eps, 0.05 * max|diff|), "Temporary" with the sign
\* of the AUC; (4) final delta beyond eps, "Increase" or "Decrease"; (5) the
\* sign of the AUC, "No Change" for AUC 0; with mag High for rel > 0.7,
\* Medium for rel > 0.3, else Low, and rel = max|diff| / (globalMaxChange + eps).
C20_RuleOrder ==
    ( /\ FuzzyReturned
      /\ Len(args.baseline_series) >= 1
      /\ Len(args.scenario_series) = Len(args.baseline_series) ) =>
        /\ ret.ok
        /\ ret.label \in RefLabels

\* rule 3 has won over rule 4: the final delta is beyond eps, yet below a
\* twentieth of the largest diff
C20_Witness ==
    /\ FuzzyReturned
    /\ ret.ok
    /\ ret.label = <<"Temporary", "Medium", "Increase">>
    /\ RefFinal > args.epsilon
    /\ RefCrossings(1, 0) = 1

\* the label names the magnitude `mag`
NamesMagnitude(label, mag) == \E i \in 1..Len(label) : label[i] = mag

\* the one case of rel > 0.1 that the cascade leaves without a direction
AtTheBoundary ==
    /\ Abs(RefFinal) = args.epsilon
    /\ RefMaxDiff <= 20 * args.epsilon
    /\ RefTwiceAuc(1) = 0
    /\ RefCrossings(1, 0) <= 1

\* C30: for an input with rel > 0.1 the label is "No Change" only if
\* |final delta| is exactly epsilon, 0.05 * max|diff| <= epsilon, the AUC is
\* 0 and there is at most one sign crossing; for every other input with
\* rel > 0.1 the label names a magnitude, High, Medium or Low.
C30_NoChangeOnlyAtTheBoundary ==
    ( /\ FuzzyReturned
      /\ ret.ok
      /\ 10 * RefMaxDiff > RefDenominator ) =>
        /\ ret.label = <<"No Change">> => AtTheBoundary
        /\ ~AtTheBoundary =>
              \E mag \in {"High", "Medium", "Low"} : NamesMagnitude(ret.label, mag)

\* series of two steps whose diffs are -epsilon and +epsilon: rel is above
\* 0.1 and the label is "No Change"
C30_Witness ==
    /\ FuzzyReturned
    /\ ret.ok
    /\ 10 * RefMaxDiff > RefDenominator
    /\ Len(args.baseline_series) >= 2
    /\ RefCrossings(1, 0) = 1
    /\ AtTheBoundary
    /\ ret.label = <<"No Change">>

\* ------------------------------------- the impact analysis of two run results
\* what a run that recorded `series` returns to the comparison
RunResultOf(series) ==
    [ok |-> TRUE,
     finalState |-> [n \in DOMAIN series |-> series[n][Len(series[n])]],
     timeSeries |-> series]

\* baseline runs that stayed at 0 for 0 to MaxLen - 1 iterations
ImpactBaselines ==
    { RunResultOf([n \in {"A", "B"} |-> [i \in 1..l |-> 0]]) : l \in 1..MaxLen }

\* scenario runs of 0 to MaxLen - 1 iterations: A moves by 0.0001 at most,
\* B by 0.0002 or not at all
ImpactScenarios ==
    UNION { { RunResultOf("A" :> a @@ "B" :> b) :
                a \in SeriesOver({-1, 0, 1}, l), b \in SeriesOver({0, 2}, l) } :
            l \in 1..MaxLen }

InitImpact ==
    /\ self = NoResult
    /\ run = NoRun
    /\ pc = "idle"
    /\ result = NoResult
    /\ runs = 0
    /\ heap = EmptyDict
    /\ args \in { [clamped_nodes |-> c] : c \in {{}, {"B"}} }
    /\ phase = "idle"
    /\ refs = NoResult
    /\ cmp_clamped_values = EmptyDict
    /\ baseline_results \in ImpactBaselines
    /\ scenario_results \in ImpactScenarios
    /\ ret = NoResult
    /\ first = EmptyDict
    /\ repeated = {}
    /\ last_call = "none"

\* lines 624-651: the comparison computes the global maximum change and
\* every node's impact metrics from the two runs' results
CallImpactMetrics ==
    /\ phase = "idle"
    /\ last_call = "none"
    /\ Returned("_calculate_impact_metrics",
                [ok |-> TRUE,
                 impactMetrics |-> ImpactMetrics(baseline_results, scenario_results,
                                                 args.clamped_nodes)])
    /\ UNCHANGED <<heap, args, refs, cmp_clamped_values, baseline_results,
                   scenario_results>>
    /\ UNCHANGED simVars

NextImpact == CallImpactMetrics

SpecImpact == InitImpact /\ [][NextImpact]_vars

ImpactReturned == last_call = "_calculate_impact_metrics"

\* the largest |diff| of node n over the common prefix of its two series
ImpactMaxAbs(n) ==
    SetMax({ Abs(scenario_results.timeSeries[n][t] - baseline_results.timeSeries[n][t]) :
             t \in 1..Min2(Len(baseline_results.timeSeries[n]),
                           Len(scenario_results.timeSeries[n])) })

\* C25: the classifier of the comparison works with eps = 1e-8, so that a
\* node outside the clamp set whose max|diff| is a globalMaxChange of 1e-4
\* has rel > 0.7 and a label of magnitude High.
C25_SameEpsilonHighMagnitude ==
    ImpactReturned =>
      \A n \in DOMAIN ret.impactMetrics \ args.clamped_nodes :
         ( /\ ImpactMaxAbs(n) = DefaultEpsilon
           /\ \A x \in DOMAIN ret.impactMetrics \ args.clamped_nodes :
                 ImpactMaxAbs(x) <= DefaultEpsilon )
         => NamesMagnitude(ret.impactMetrics[n].direction, "High")

\* ----------------------------------------------------- apply_initial_values
RECURSIVE ApplyFrom(_, _, _)
\* lines 353-363: the loop over the nodes from position i on; it writes each
\* converted value into the node it visits and stops at the first value
\* that float() refuses
ApplyFrom(nodes, initial_values, i) ==
    IF i > Len(nodes) THEN [raised |-> FALSE, nodes |-> nodes]
    ELSE IF initial_values # EmptyDict /\ nodes[i].id \in DOMAIN initial_values
    THEN IF FloatRaises(initial_values[nodes[i].id])
         THEN [raised |-> TRUE, nodes |-> nodes, node |-> nodes[i].id]
         ELSE ApplyFrom([nodes EXCEPT ![i].value = float(initial_values[nodes[i].id])],
                        initial_values, i + 1)
    ELSE ApplyFrom(nodes, initial_values, i + 1)

\* lines 336-372: what the call returns or raises, and the node list `object`
\* as the call leaves it; the list returned is the list passed in
apply_initial_values(object, nodes, initial_values) ==
    IF nodes = <<>>
    THEN [outcome |-> Raise("ValueError", <<"No nodes provided">>), nodes |-> nodes]
    ELSE IF initial_values # EmptyDict
            /\ DOMAIN initial_values \ { nodes[i].id : i \in 1..Len(nodes) } # {}
    THEN [outcome |-> Raise("ValueError",
                            <<"Initial values provided for non-existent nodes">>),
          nodes |-> nodes]
    ELSE LET applied == ApplyFrom(nodes, initial_values, 1)
         IN  IF applied.raised
             THEN [outcome |-> Raise("TypeError", <<"Invalid value for node", applied.node>>),
                   nodes |-> applied.nodes]
             ELSE [outcome |-> [ok |-> TRUE, nodes |-> object],
                   nodes |-> applied.nodes]

ApplyNodeLists ==
    { <<>>,
      <<Node("A", Scale, "driver"), Node("B", 0, "regular")>>,
      <<Node("A", 0, "regular"), Node("B", Half, "output")>> }

ApplyInitialValues ==
    { EmptyDict,
      ("A" :> 7000),
      ("B" :> 2000),
      ("A" :> 7000 @@ "B" :> 2000),
      ("Z" :> Scale),
      ("A" :> 7000 @@ "Z" :> Scale),
      ("A" :> None),
      ("A" :> 7000 @@ "B" :> NotNumeric) }

InitApply ==
    /\ self = NoResult
    /\ run = NoRun
    /\ pc = "idle"
    /\ result = NoResult
    /\ runs = 0
    /\ heap \in { ("nodes" :> ns) : ns \in ApplyNodeLists }
    /\ args = [nodes |-> heap["nodes"], initial_values |-> EmptyDict]
    /\ phase = "idle"
    /\ refs = NoResult
    /\ cmp_clamped_values = EmptyDict
    /\ baseline_results = NoResult
    /\ scenario_results = NoResult
    /\ ret = NoResult
    /\ first = EmptyDict
    /\ repeated = {}
    /\ last_call = "none"

\* the caller calls apply_initial_values on its node list, a first and a
\* second time; args keeps the node list as it was when passed
CallApplyInitialValues ==
    /\ phase = "idle"
    /\ "apply_initial_values" \notin repeated
    /\ \E initial_values \in ApplyInitialValues :
          LET call == apply_initial_values("nodes", heap["nodes"], initial_values)
          IN  /\ args' = [nodes |-> heap["nodes"], initial_values |-> initial_values]
              /\ heap' = [heap EXCEPT !["nodes"] = call.nodes]
              /\ Returned("apply_initial_values", call.outcome)
    /\ UNCHANGED <<refs, cmp_clamped_values, baseline_results, scenario_results>>
    /\ UNCHANGED simVars

NextApply == CallApplyInitialValues

SpecApply == InitApply /\ [][NextApply]_vars

ApplyReturned == last_call = "apply_initial_values"

\* C26: apply_initial_values leaves the caller's node list as it was
\* passed, when it returns the nodes with the initial values applied and
\* when it raises for an unknown node id or a value that float() refuses.
C26_CallerNodesNotMutated ==
    ApplyReturned => heap["nodes"] = args.nodes
====
